---- MODULE Spec2Model ----
(***************************************************************************)
(* Verification model of rockpi-penta (misc.py, oled.py): the configuration *)
(* snapshot read_conf, the button gesture classifier read_key_events, the   *)
(* fan duty mapping fan_temp2dc and the page scheduler auto_slider.         *)
(*                                                                          *)
(* Units: temperatures in degrees C, duty fractions in percent (1.0 = 100), *)
(* conf['time'] values and the classifier clock in tenths of a second,      *)
(* conf['slider']['time'] and the scheduler clock in seconds.               *)
(***************************************************************************)
EXTENDS Integers, Sequences, FiniteSets, TLC

VARIABLES
    cfg,             \* parsed content of /etc/rockpi-penta.conf: (section, option) -> value
    conf,            \* misc.conf, the module-level configuration
    imported,        \* TRUE once "conf.update(read_conf())" has run
    click_count,     \* read_key_events locals
    wait,
    ignore_release,
    elapsed,         \* time spent in the current request.wait_edge_events(wait)
    now,             \* classifier clock
    button,          \* level of the button line: "up" or "down"
    log,             \* what read_key_events consumed and yielded, in order
    ignored,         \* number of releases skipped because ignore_release was set
    idx,             \* oled.idx, the page index
    slide,           \* auto_slider local
    pc,              \* position of auto_slider in its loop
    slide_event,     \* the threading.Event shared with the dispatching flow
    waited,          \* time spent in the current slide_event.wait(...)
    call,            \* what the current iteration called: "slider" or "refresh"
    woke,            \* how the last wait ended: "signal" or "timeout"
    frames,          \* the page indexes shown by disp_show, in order
    unserved,        \* a set() has happened that no slider() call has followed yet
    nsignals,        \* number of set() calls so far
    sinceClear,      \* number of set() calls since the last slide_event.clear()
    idxAtClear,      \* idx at the last slide_event.clear()
    samples,         \* the last two (t, fan_temp2dc(t)) samples
    gesture,         \* the key the dispatching flow last passed to get_func
    func,            \* what get_func returned for it
    d_pc,            \* position of the dispatching flow: "idle", "dispatch", "write"
    sw_run,          \* fan_switch: the value read from conf['run'].value
    ncalls,          \* number of completed fan_switch calls
    seen             \* the last value of conf['run'].value read by the fan flow

keyVars    == <<click_count, wait, ignore_release, elapsed, now, button, log, ignored>>
confVars   == <<cfg, conf, imported>>
sliderVars == <<idx, slide, pc, slide_event, waited, call, woke, frames, unserved, nsignals,
                sinceClear, idxAtClear>>
fanVars    == <<samples>>
dispatchVars == <<gesture, func, d_pc, sw_run, ncalls, seen>>

(***************************************************************************)
(* Bounds of the exploration.                                               *)
(***************************************************************************)
MaxTime    == 13
MaxLog     == 6
MaxFrames  == 4
MaxSignals == 2
MaxCalls   == 3

(***************************************************************************)
(* Dictionaries.                                                            *)
(***************************************************************************)
\* dict.update(other)
Update(d, other) ==
    [k \in (DOMAIN d) \cup (DOMAIN other) |->
        IF k \in DOMAIN other THEN other[k] ELSE d[k]]

\* conf[sec][key] = val on a defaultdict(dict)
SetItem(d, sec, key, val) ==
    LET old == IF sec \in DOMAIN d THEN d[sec] ELSE <<>>
        new == [k \in (DOMAIN old) \cup {key} |-> IF k = key THEN val ELSE old[k]]
    IN  [s \in (DOMAIN d) \cup {sec} |-> IF s = sec THEN new ELSE d[s]]

(***************************************************************************)
(* read_conf                                                                *)
(***************************************************************************)
\* the options read in the try block, in the order of the code
ConfFields ==
    << <<"fan", "lv0">>, <<"fan", "lv1">>, <<"fan", "lv2">>, <<"fan", "lv3">>,
       <<"key", "click">>, <<"key", "twice">>, <<"key", "press">>,
       <<"time", "twice">>, <<"time", "press">>,
       <<"slider", "auto">>, <<"slider", "time">>,
       <<"oled", "rotate">>, <<"oled", "f-temp">> >>

\* cfg.get / getfloat / getboolean raises when the option is missing or
\* does not parse; both are modelled by the option being absent from cfg.
Raises(c, f) == f \notin DOMAIN c

\* the try block from field i on: returns the dict and whether it raised
RECURSIVE LoadFrom(_, _, _)
LoadFrom(c, d, i) ==
    IF i > Len(ConfFields)
    THEN [conf |-> [k \in (DOMAIN d) \cup {"disk"} |->
                       IF k = "disk"
                       THEN IF <<"disk", "extra">> \in DOMAIN c
                            THEN c[<<"disk", "extra">>] ELSE <<>>
                       ELSE d[k]],
          raised |-> FALSE]
    ELSE IF Raises(c, ConfFields[i])
         THEN [conf |-> d, raised |-> TRUE]
         ELSE LoadFrom(c, SetItem(d, ConfFields[i][1], ConfFields[i][2], c[ConfFields[i]]), i + 1)

\* the except block without the assignment of conf['fan']['lv0']
Defaults_without_lv0(d) ==
    LET d2  == SetItem(d,   "fan", "lv1", 40)
        d3  == SetItem(d2,  "fan", "lv2", 45)
        d4  == SetItem(d3,  "fan", "lv3", 50)
        d5  == SetItem(d4,  "key", "click", "slider")
        d6  == SetItem(d5,  "key", "twice", "switch")
        d7  == SetItem(d6,  "key", "press", "none")
        d8  == SetItem(d7,  "time", "twice", 7)
        d9  == SetItem(d8,  "time", "press", 18)
        d10 == SetItem(d9,  "slider", "auto", TRUE)
        d11 == SetItem(d10, "slider", "time", 10)
        d12 == SetItem(d11, "oled", "rotate", FALSE)
    IN  SetItem(d12, "oled", "f-temp", FALSE)

\* the except block
Defaults(d) ==
    LET d1  == SetItem(d,   "fan", "lv0", 35)
        d2  == SetItem(d1,  "fan", "lv1", 40)
        d3  == SetItem(d2,  "fan", "lv2", 45)
        d4  == SetItem(d3,  "fan", "lv3", 50)
        d5  == SetItem(d4,  "key", "click", "slider")
        d6  == SetItem(d5,  "key", "twice", "switch")
        d7  == SetItem(d6,  "key", "press", "none")
        d8  == SetItem(d7,  "time", "twice", 7)
        d9  == SetItem(d8,  "time", "press", 18)
        d10 == SetItem(d9,  "slider", "auto", TRUE)
        d11 == SetItem(d10, "slider", "time", 10)
        d12 == SetItem(d11, "oled", "rotate", FALSE)
    IN  SetItem(d12, "oled", "f-temp", FALSE)

read_conf(c) ==
    LET r == LoadFrom(c, <<>>, 1)
    IN  IF r.raised THEN Defaults(r.conf) ELSE r.conf

\* conf = {'disk': [], 'run': mp.Value('d', 1)}
conf0 == [disk |-> <<>>, run |-> 1]

\* conf.update(read_conf())
ImportConf ==
    /\ ~imported
    /\ conf' = Update(conf, read_conf(cfg))
    /\ imported' = TRUE
    /\ UNCHANGED <<cfg, keyVars, sliderVars, fanVars, dispatchVars>>

\* a complete configuration file that differs from the defaults everywhere
GoodCfg ==
    ( <<"fan", "lv0">> :> 30 @@ <<"fan", "lv1">> :> 38 @@
      <<"fan", "lv2">> :> 46 @@ <<"fan", "lv3">> :> 54 @@
      <<"key", "click">> :> "switch" @@ <<"key", "twice">> :> "none" @@
      <<"key", "press">> :> "slider" @@
      <<"time", "twice">> :> 3 @@ <<"time", "press">> :> 2 @@
      <<"slider", "auto">> :> FALSE @@ <<"slider", "time">> :> 3 @@
      <<"oled", "rotate">> :> TRUE @@ <<"oled", "f-temp">> :> TRUE @@
      <<"disk", "extra">> :> <<"nvme0n1">> )

Restrict(f, S) == [x \in S |-> f[x]]

\* files in which any subset of the options is missing or unparsable
ConfCfgs == { Restrict(GoodCfg, S) : S \in SUBSET (DOMAIN GoodCfg) }

(***************************************************************************)
(* read_key_events                                                          *)
(***************************************************************************)
None == -1

time_long_press   == conf["time"]["press"]
time_double_click == conf["time"]["twice"]

KeyIdle ==
    /\ click_count = 0
    /\ wait = None
    /\ ignore_release = FALSE
    /\ elapsed = 0
    /\ now = 0
    /\ button = "up"
    /\ log = <<>>
    /\ ignored = 0

Entry(ev, out) == [ev |-> ev, t |-> now, out |-> out]

\* Timeout without the "wait = None" reset: the expired wait stays armed
Timeout_keeps_wait ==
    /\ imported
    /\ wait # None
    /\ elapsed = wait
    /\ Len(log) < MaxLog
    /\ ignore_release' = IF click_count = 0 THEN TRUE ELSE ignore_release
    /\ log' = Append(log, Entry("timeout",
                  IF click_count = 0 THEN "press"
                  ELSE IF click_count = 1 THEN "click" ELSE "none"))
    /\ click_count' = 0
    /\ elapsed' = 0
    /\ UNCHANGED <<wait, now, button, ignored, confVars, sliderVars, fanVars, dispatchVars>>

\* Timeout that yields 'press' without setting ignore_release
Timeout_no_ignore ==
    /\ imported
    /\ wait # None
    /\ elapsed = wait
    /\ Len(log) < MaxLog
    /\ ignore_release' = ignore_release
    /\ log' = Append(log, Entry("timeout",
                  IF click_count = 0 THEN "press"
                  ELSE IF click_count = 1 THEN "click" ELSE "none"))
    /\ click_count' = 0
    /\ wait' = None
    /\ elapsed' = 0
    /\ UNCHANGED <<now, button, ignored, confVars, sliderVars, fanVars, dispatchVars>>

\* Timeout without the "click_count = 0" reset
Timeout_keeps_count ==
    /\ imported
    /\ wait # None
    /\ elapsed = wait
    /\ Len(log) < MaxLog
    /\ ignore_release' = IF click_count = 0 THEN TRUE ELSE ignore_release
    /\ log' = Append(log, Entry("timeout",
                  IF click_count = 0 THEN "press"
                  ELSE IF click_count = 1 THEN "click" ELSE "none"))
    /\ click_count' = click_count
    /\ wait' = None
    /\ elapsed' = 0
    /\ UNCHANGED <<now, button, ignored, confVars, sliderVars, fanVars, dispatchVars>>

\* request.wait_edge_events(wait) returned False
Timeout ==
    /\ imported
    /\ wait # None
    /\ elapsed = wait
    /\ Len(log) < MaxLog
    /\ ignore_release' = IF click_count = 0 THEN TRUE ELSE ignore_release
    /\ log' = Append(log, Entry("timeout",
                  IF click_count = 0 THEN "press"
                  ELSE IF click_count = 1 THEN "click" ELSE "none"))
    /\ click_count' = 0
    /\ wait' = None
    /\ elapsed' = 0
    /\ UNCHANGED <<now, button, ignored, confVars, sliderVars, fanVars, dispatchVars>>

\* Falling that arms the long-press wait without testing click_count
Falling_always_arms ==
    /\ imported
    /\ button = "up"
    /\ wait = None \/ elapsed < wait
    /\ Len(log) < MaxLog
    /\ button' = "down"
    /\ wait' = time_long_press
    /\ elapsed' = 0
    /\ log' = Append(log, Entry("falling", "none"))
    /\ UNCHANGED <<click_count, ignore_release, now, ignored, confVars, sliderVars, fanVars, dispatchVars>>

\* FALLING_EDGE: pressed
Falling ==
    /\ imported
    /\ button = "up"
    /\ wait = None \/ elapsed < wait
    /\ Len(log) < MaxLog
    /\ button' = "down"
    /\ wait' = IF click_count = 0 THEN time_long_press ELSE wait
    /\ elapsed' = 0
    /\ log' = Append(log, Entry("falling", "none"))
    /\ UNCHANGED <<click_count, ignore_release, now, ignored, confVars, sliderVars, fanVars, dispatchVars>>

\* Rising that skips the release but leaves ignore_release set
Rising_keeps_flag ==
    /\ imported
    /\ button = "down"
    /\ wait = None \/ elapsed < wait
    /\ Len(log) < MaxLog
    /\ button' = "up"
    /\ elapsed' = 0
    /\ IF ignore_release
       THEN /\ ignore_release' = ignore_release
            /\ ignored' = ignored + 1
            /\ log' = Append(log, Entry("rising", "none"))
            /\ UNCHANGED <<click_count, wait>>
       ELSE LET cc == click_count + 1
                w  == IF cc = 1 THEN time_double_click ELSE wait
            IN  /\ IF cc = 2 /\ w = time_double_click
                   THEN /\ click_count' = 0
                        /\ wait' = None
                        /\ log' = Append(log, Entry("rising", "twice"))
                   ELSE /\ click_count' = cc
                        /\ wait' = w
                        /\ log' = Append(log, Entry("rising", "none"))
                /\ UNCHANGED <<ignore_release, ignored>>
    /\ UNCHANGED <<now, confVars, sliderVars, fanVars, dispatchVars>>

\* Rising that arms the long-press wait after the first counted release
Rising_arms_long_press ==
    /\ imported
    /\ button = "down"
    /\ wait = None \/ elapsed < wait
    /\ Len(log) < MaxLog
    /\ button' = "up"
    /\ elapsed' = 0
    /\ IF ignore_release
       THEN /\ ignore_release' = FALSE
            /\ ignored' = ignored + 1
            /\ log' = Append(log, Entry("rising", "none"))
            /\ UNCHANGED <<click_count, wait>>
       ELSE LET cc == click_count + 1
                w  == IF cc = 1 THEN time_long_press ELSE wait
            IN  /\ IF cc = 2 /\ w = time_double_click
                   THEN /\ click_count' = 0
                        /\ wait' = None
                        /\ log' = Append(log, Entry("rising", "twice"))
                   ELSE /\ click_count' = cc
                        /\ wait' = w
                        /\ log' = Append(log, Entry("rising", "none"))
                /\ UNCHANGED <<ignore_release, ignored>>
    /\ UNCHANGED <<now, confVars, sliderVars, fanVars, dispatchVars>>

\* RISING_EDGE: released
Rising ==
    /\ imported
    /\ button = "down"
    /\ wait = None \/ elapsed < wait
    /\ Len(log) < MaxLog
    /\ button' = "up"
    /\ elapsed' = 0
    /\ IF ignore_release
       THEN /\ ignore_release' = FALSE
            /\ ignored' = ignored + 1
            /\ log' = Append(log, Entry("rising", "none"))
            /\ UNCHANGED <<click_count, wait>>
       ELSE LET cc == click_count + 1
                w  == IF cc = 1 THEN time_double_click ELSE wait
            IN  /\ IF cc = 2 /\ w = time_double_click
                   THEN /\ click_count' = 0
                        /\ wait' = None
                        /\ log' = Append(log, Entry("rising", "twice"))
                   ELSE /\ click_count' = cc
                        /\ wait' = w
                        /\ log' = Append(log, Entry("rising", "none"))
                /\ UNCHANGED <<ignore_release, ignored>>
    /\ UNCHANGED <<now, confVars, sliderVars, fanVars, dispatchVars>>

\* time passes while the classifier is blocked in wait_edge_events
Tick ==
    /\ imported
    /\ now < MaxTime
    /\ wait = None \/ elapsed < wait
    /\ now' = now + 1
    /\ elapsed' = IF wait = None THEN 0 ELSE elapsed + 1
    /\ UNCHANGED <<click_count, wait, ignore_release, button, log, ignored, confVars,
                   sliderVars, fanVars, dispatchVars>>

(***************************************************************************)
(* oled.py: slider, refresh, auto_slider                                    *)
(***************************************************************************)
\* the initial state with "slide = False" at the entry of auto_slider
SliderIdle_slide_false ==
    /\ idx = -1
    /\ slide = FALSE
    /\ pc = "test"
    /\ slide_event = FALSE
    /\ waited = 0
    /\ call = "none"
    /\ woke = "none"
    /\ frames = <<>>
    /\ unserved = FALSE
    /\ nsignals = 0
    /\ sinceClear = 0
    /\ idxAtClear = -1

SliderIdle ==
    /\ idx = -1
    /\ slide = TRUE
    /\ pc = "test"
    /\ slide_event = FALSE
    /\ waited = 0
    /\ call = "none"
    /\ woke = "none"
    /\ frames = <<>>
    /\ unserved = FALSE
    /\ nsignals = 0
    /\ sinceClear = 0
    /\ idxAtClear = -1

\* misc.get_sleep_time()
get_sleep_time == conf["slider"]["time"]

\* "idx += 1" without the "idx %= 3" that follows it
NextIdx_no_wrap(i) == i + 1

\* slider(): idx += 1; idx %= 3
NextIdx(i) == (i + 1) % 3

\* Decide that looks at the auto-rotation setting only
Decide_ignores_slide ==
    /\ pc = "test"
    /\ IF conf["slider"]["auto"]
       THEN /\ idx' = NextIdx(idx)
            /\ call' = "slider"
            /\ unserved' = FALSE
       ELSE /\ call' = "refresh"
            /\ UNCHANGED <<idx, unserved>>
    /\ pc' = "render"
    /\ UNCHANGED <<slide, slide_event, waited, woke, frames, nsignals,
                   sinceClear, idxAtClear, confVars, keyVars, fanVars, dispatchVars>>

\* Decide that calls slider() in every iteration
Decide_always_slides ==
    /\ pc = "test"
    /\ idx' = NextIdx(idx)
    /\ call' = "slider"
    /\ unserved' = FALSE
    /\ pc' = "render"
    /\ UNCHANGED <<slide, slide_event, waited, woke, frames, nsignals,
                   sinceClear, idxAtClear, confVars, keyVars, fanVars, dispatchVars>>

\* "if misc.conf['slider']['auto'] or slide:" and the entry of slider() or
\* refresh(), up to the call of gen_pages(idx)
Decide ==
    /\ pc = "test"
    /\ IF conf["slider"]["auto"] \/ slide
       THEN /\ idx' = NextIdx(idx)
            /\ call' = "slider"
            /\ unserved' = FALSE
       ELSE /\ call' = "refresh"
            /\ UNCHANGED <<idx, unserved>>
    /\ pc' = "render"
    /\ UNCHANGED <<slide, slide_event, waited, woke, frames, nsignals,
                   sinceClear, idxAtClear, confVars, keyVars, fanVars, dispatchVars>>

\* gen_pages(idx), draw.text and disp_show() complete
RenderDone ==
    /\ pc = "render"
    /\ Len(frames) < MaxFrames
    /\ frames' = Append(frames, idx)
    /\ pc' = "clear"
    /\ UNCHANGED <<idx, slide, slide_event, waited, call, woke, unserved, nsignals,
                   sinceClear, idxAtClear, confVars, keyVars, fanVars, dispatchVars>>

\* a metric read inside gen_pages(idx) raises (check_output fails, float()
\* of the temperature fails): the exception leaves auto_slider
RenderFail ==
    /\ pc = "render"
    /\ pc' = "dead"
    /\ UNCHANGED <<idx, slide, slide_event, waited, call, woke, frames, unserved,
                   nsignals, sinceClear, idxAtClear, confVars, keyVars, fanVars, dispatchVars>>

\* the step without slide_event.clear()
Clear_keeps_event ==
    /\ pc = "clear"
    /\ waited' = 0
    /\ pc' = "wait"
    /\ sinceClear' = 0
    /\ idxAtClear' = idx
    /\ UNCHANGED <<idx, slide, slide_event, call, woke, frames, unserved, nsignals,
                   confVars, keyVars, fanVars, dispatchVars>>

\* slide_event.clear() and the entry of slide_event.wait(...)
Clear ==
    /\ pc = "clear"
    /\ slide_event' = FALSE
    /\ waited' = 0
    /\ pc' = "wait"
    /\ sinceClear' = 0
    /\ idxAtClear' = idx
    /\ UNCHANGED <<idx, slide, call, woke, frames, unserved, nsignals,
                   confVars, keyVars, fanVars, dispatchVars>>

\* WaitTick that does not notice the event
WaitTick_deaf ==
    /\ pc = "wait"
    /\ waited < get_sleep_time
    /\ waited' = waited + 1
    /\ UNCHANGED <<idx, slide, pc, slide_event, call, woke, frames, unserved,
                   nsignals, sinceClear, idxAtClear, confVars, keyVars, fanVars, dispatchVars>>

\* time passes while auto_slider is blocked in slide_event.wait(...)
WaitTick ==
    /\ pc = "wait"
    /\ ~slide_event
    /\ waited < get_sleep_time
    /\ waited' = waited + 1
    /\ UNCHANGED <<idx, slide, pc, slide_event, call, woke, frames, unserved,
                   nsignals, sinceClear, idxAtClear, confVars, keyVars, fanVars, dispatchVars>>

\* slide_event.wait(misc.get_sleep_time()) returns: the event is set or the
\* timeout has expired
WaitReturn ==
    /\ pc = "wait"
    /\ slide_event \/ waited = get_sleep_time
    /\ woke' = IF slide_event THEN "signal" ELSE "timeout"
    /\ pc' = "is_set"
    /\ UNCHANGED <<idx, slide, slide_event, waited, call, frames, unserved,
                   nsignals, sinceClear, idxAtClear, confVars, keyVars, fanVars, dispatchVars>>

\* slide = slide_event.is_set()
IsSet ==
    /\ pc = "is_set"
    /\ slide' = slide_event
    /\ pc' = "test"
    /\ UNCHANGED <<idx, slide_event, waited, call, woke, frames, unserved,
                   nsignals, sinceClear, idxAtClear, confVars, keyVars, fanVars, dispatchVars>>

\* the dispatching flow signals a forced advance: slide_event.set()
SetEvent ==
    /\ nsignals < MaxSignals
    /\ slide_event' = TRUE
    /\ unserved' = TRUE
    /\ nsignals' = nsignals + 1
    /\ sinceClear' = sinceClear + 1
    /\ UNCHANGED <<idx, slide, pc, waited, call, woke, frames, idxAtClear,
                   confVars, keyVars, fanVars, dispatchVars>>

(***************************************************************************)
(* fan_temp2dc                                                              *)
(***************************************************************************)
FAN_DUTY_OFF == 0

lv2dc_reversed == << <<"lv0", 25>>, <<"lv1", 50>>, <<"lv2", 75>>, <<"lv3", 100>> >>

lv2dc == << <<"lv3", 100>>, <<"lv2", 75>>, <<"lv1", 50>>, <<"lv0", 25>> >>

duty2dc(x) == 100 - x

\* "for lv, dc in lv2dc.items()" from item i on
RECURSIVE FirstLevel(_, _)
FirstLevel(t, i) ==
    IF i > Len(lv2dc) THEN FAN_DUTY_OFF
    ELSE IF t >= conf["fan"][lv2dc[i][1]] THEN lv2dc[i][2]
         ELSE FirstLevel(t, i + 1)

\* the loop with "t > conf['fan'][lv]" as its test
RECURSIVE FirstLevelStrict(_, _)
FirstLevelStrict(t, i) ==
    IF i > Len(lv2dc) THEN FAN_DUTY_OFF
    ELSE IF t > conf["fan"][lv2dc[i][1]] THEN lv2dc[i][2]
         ELSE FirstLevelStrict(t, i + 1)

fan_temp2dc_strict(t) == duty2dc(FirstLevelStrict(t, 1))

fan_temp2dc(t) == duty2dc(FirstLevel(t, 1))

\* temperatures sampled by the fan flow
Temps == {30, 35, 42, 47, 50, 55}

\* the fan flow samples a temperature and maps it
FanSample ==
    /\ imported
    /\ \E t \in Temps :
          LET s == [t |-> t, dc |-> fan_temp2dc(t)]
          IN  samples' = IF samples = <<>> THEN <<s>> ELSE <<samples[Len(samples)], s>>
    /\ UNCHANGED <<confVars, keyVars, sliderVars, dispatchVars>>

(***************************************************************************)
(* get_func, fan_switch and the flows that use them                         *)
(***************************************************************************)
DispatchIdle ==
    /\ gesture = "none"
    /\ func = "none"
    /\ d_pc = "idle"
    /\ sw_run = None
    /\ ncalls = 0
    /\ seen = None

\* conf['key'].get(key, 'none')
get_func(key) ==
    IF key \in DOMAIN conf["key"] THEN conf["key"][key] ELSE "none"

\* the keys get_func is called with: the three gestures and a key that has
\* no binding
Keys == {"click", "twice", "press", "hold"}

\* the dispatching flow takes a gesture and looks up its action
GetFunc ==
    /\ imported
    /\ d_pc = "idle"
    /\ \E k \in Keys :
          /\ gesture' = k
          /\ func' = get_func(k)
    /\ d_pc' = "dispatch"
    /\ UNCHANGED <<sw_run, ncalls, seen, confVars, keyVars, sliderVars, fanVars>>

\* "not x" stored into a Value('d'): 1.0 for a zero, 0.0 otherwise
Not(x) == IF x = 0 THEN 1 ELSE 0

\* fan_switch: the right-hand side reads conf['run'].value
SwitchRead ==
    /\ d_pc = "dispatch"
    /\ func = "switch"
    /\ ncalls < MaxCalls
    /\ sw_run' = conf["run"]
    /\ d_pc' = "write"
    /\ UNCHANGED <<gesture, func, ncalls, seen, confVars, keyVars, sliderVars, fanVars>>

\* the assignment that stores the value read, without the "not"
SwitchWrite_same ==
    /\ d_pc = "write"
    /\ conf' = [conf EXCEPT !["run"] = sw_run]
    /\ ncalls' = ncalls + 1
    /\ d_pc' = "idle"
    /\ UNCHANGED <<gesture, func, sw_run, seen, cfg, imported, keyVars, sliderVars, fanVars>>

\* fan_switch: the assignment stores "not" of the value read
SwitchWrite ==
    /\ d_pc = "write"
    /\ conf' = [conf EXCEPT !["run"] = Not(sw_run)]
    /\ ncalls' = ncalls + 1
    /\ d_pc' = "idle"
    /\ UNCHANGED <<gesture, func, sw_run, seen, cfg, imported, keyVars, sliderVars, fanVars>>

\* the dispatching flow on any other action name: "slider" sets the
\* forced-advance signal, everything else does nothing
DispatchOther ==
    /\ d_pc = "dispatch"
    /\ func # "switch"
    /\ slide_event' = IF func = "slider" THEN TRUE ELSE slide_event
    /\ d_pc' = "idle"
    /\ UNCHANGED <<gesture, func, sw_run, ncalls, seen, confVars, keyVars, fanVars,
                   idx, slide, pc, waited, call, woke, frames, unserved, nsignals,
                   sinceClear, idxAtClear>>

\* the fan flow reads the override flag
ReadRun ==
    /\ imported
    /\ seen' = conf["run"]
    /\ UNCHANGED <<gesture, func, d_pc, sw_run, ncalls, confVars, keyVars, sliderVars, fanVars>>

vars == <<cfg, conf, imported, click_count, wait, ignore_release, elapsed, now, button, log,
          ignored,
          idx, slide, pc, slide_event, waited, call, woke, frames, unserved, nsignals,
          sinceClear, idxAtClear, samples,
          gesture, func, d_pc, sw_run, ncalls, seen>>

\* positive timing values a configuration file may hold
TimeValues == {2, 3}

KeyCfgs ==
    { [GoodCfg EXCEPT ![<<"time", "twice">>] = d, ![<<"time", "press">>] = p] :
          d \in TimeValues, p \in TimeValues }
    \cup { Restrict(GoodCfg, {}) }

InitConf ==
    /\ cfg \in ConfCfgs
    /\ conf = conf0
    /\ imported = FALSE
    /\ KeyIdle
    /\ SliderIdle
    /\ samples = <<>>
    /\ DispatchIdle

NextConf == ImportConf

SpecConf == InitConf /\ [][NextConf]_vars

InitKey ==
    /\ cfg \in KeyCfgs
    /\ conf = Update(conf0, read_conf(cfg))
    /\ imported = TRUE
    /\ KeyIdle
    /\ SliderIdle
    /\ samples = <<>>
    /\ DispatchIdle

NextKey == Falling \/ Rising \/ Timeout \/ Tick

SpecKey == InitKey /\ [][NextKey]_vars

\* time passes during a bounded wait
TickWaiting == Tick /\ wait # None

\* the configuration files with different values for the two timings
LiveCfgs ==
    { c \in KeyCfgs : /\ DOMAIN c # {}
                      /\ c[<<"time", "twice">>] # c[<<"time", "press">>] }

InitKeyLive ==
    /\ cfg \in LiveCfgs
    /\ conf = Update(conf0, read_conf(cfg))
    /\ imported = TRUE
    /\ KeyIdle
    /\ SliderIdle
    /\ samples = <<>>
    /\ DispatchIdle

\* a bounded wait_edge_events(wait) returns: time passes and the timeout
\* is delivered when it expires
FairSpecKey ==
    InitKeyLive /\ [][NextKey]_vars /\ WF_vars(Timeout) /\ WF_vars(TickWaiting)

\* slider settings a configuration file may hold
IntervalValues == {2, 3}

SliderCfgs ==
    { [GoodCfg EXCEPT ![<<"slider", "auto">>] = a, ![<<"slider", "time">>] = i] :
          a \in BOOLEAN, i \in IntervalValues }
    \cup { Restrict(GoodCfg, {}) }

InitSlider ==
    /\ cfg \in SliderCfgs
    /\ conf = Update(conf0, read_conf(cfg))
    /\ imported = TRUE
    /\ KeyIdle
    /\ SliderIdle
    /\ samples = <<>>
    /\ DispatchIdle

NextSlider ==
    \/ Decide \/ RenderDone \/ RenderFail \/ Clear
    \/ WaitTick \/ WaitReturn \/ IsSet \/ SetEvent

SpecSlider == InitSlider /\ [][NextSlider]_vars

\* thresholds a configuration file may hold
ThresholdValues == {35, 40, 45, 50}

FanCfgs ==
    { [GoodCfg EXCEPT ![<<"fan", "lv0">>] = a, ![<<"fan", "lv1">>] = b,
                      ![<<"fan", "lv2">>] = c, ![<<"fan", "lv3">>] = d] :
          a \in ThresholdValues, b \in ThresholdValues,
          c \in ThresholdValues, d \in ThresholdValues }
    \cup { Restrict(GoodCfg, {}) }

InitFan ==
    /\ cfg \in FanCfgs
    /\ conf = Update(conf0, read_conf(cfg))
    /\ imported = TRUE
    /\ KeyIdle
    /\ SliderIdle
    /\ samples = <<>>
    /\ DispatchIdle

NextFan == FanSample

SpecFan == InitFan /\ [][NextFan]_vars

\* action names a configuration file may bind to a gesture
BindingValues == {"slider", "switch", "none", "poweroff"}

BindingCfgs ==
    { [GoodCfg EXCEPT ![<<"key", "click">>] = a, ![<<"key", "twice">>] = b,
                      ![<<"key", "press">>] = c] :
          a \in BindingValues, b \in BindingValues, c \in BindingValues }
    \cup { Restrict(GoodCfg, {}) }

InitDispatch ==
    /\ cfg \in BindingCfgs
    /\ conf = Update(conf0, read_conf(cfg))
    /\ imported = TRUE
    /\ KeyIdle
    /\ SliderIdle
    /\ samples = <<>>
    /\ DispatchIdle

NextDispatch == GetFunc \/ SwitchRead \/ SwitchWrite \/ DispatchOther \/ ReadRun

SpecDispatch == InitDispatch /\ [][NextDispatch]_vars

(***************************************************************************)
(* Properties of read_key_events                                            *)
(***************************************************************************)
IsEdge(e)   == e.ev # "timeout"
Edges       == SelectSeq(log, IsEdge)
HasOut(e)   == e.out # "none"
Outs        == SelectSeq(log, HasOut)
OutsUpTo(n) == SelectSeq(SubSeq(log, 1, n), HasOut)

\* the log starts with press, release, press, release and no timeout
StartsPRPR ==
    /\ Len(log) >= 4
    /\ log[1].ev = "falling" /\ log[2].ev = "rising"
    /\ log[3].ev = "falling" /\ log[4].ev = "rising"

\* C1: press, release, press, release from the initial state, no wait timing
\* out in between and the second release inside the double-click window of
\* the first: exactly one 'twice' is yielded (at the second release) and no
\* 'click' and no 'press'.
C1_DoubleClick ==
    (StartsPRPR /\ log[4].t - log[2].t < time_double_click)
        => /\ log[4].out = "twice"
           /\ OutsUpTo(4) = <<log[4]>>

C1_Witness ==
    /\ StartsPRPR
    /\ log[4].t - log[2].t < time_double_click
    /\ log[4].t > log[2].t
    /\ log[4].out = "twice"

\* the edges so far are one press and one release
SinglePressRelease ==
    /\ Len(Edges) = 2
    /\ Edges[1].ev = "falling" /\ Edges[2].ev = "rising"

\* exactly one 'click', at the expiry of the double-click window after the
\* release, and nothing else
OneClickAfterWindow ==
    /\ Len(Outs) <= 1
    /\ \A i \in 1..Len(Outs) :
          /\ Outs[i].out = "click"
          /\ Outs[i].t = Edges[2].t + time_double_click
    /\ now > Edges[2].t + time_double_click => Len(Outs) = 1

\* C2 as stated: a single press with a release less than the double-click
\* window later and no further edge yields exactly one 'click', when the
\* window has elapsed after the release, for any positive timing values.
C2_Original ==
    (SinglePressRelease /\ Edges[2].t - Edges[1].t < time_double_click)
        => OneClickAfterWindow

\* C2 (amended): a single press with a release less than the double-click
\* window and less than the long-press threshold later, and no further
\* edge, yields exactly one 'click', when the double-click window has
\* elapsed after the release, and no other gesture.
C2_SingleClick ==
    (/\ SinglePressRelease
     /\ Edges[2].t - Edges[1].t < time_double_click
     /\ Edges[2].t - Edges[1].t < time_long_press)
        => OneClickAfterWindow

C2_Witness ==
    /\ SinglePressRelease
    /\ Edges[2].t - Edges[1].t < time_double_click
    /\ Edges[2].t - Edges[1].t < time_long_press
    /\ Len(Outs) = 1
    /\ Outs[1].out = "click"
    /\ now > Edges[2].t + time_double_click

\* index of the first edge after log[i], 0 when there is none
NextEdge(i) ==
    LET later == { j \in (i + 1)..Len(log) : IsEdge(log[j]) }
    IN  IF later = {} THEN 0 ELSE CHOOSE j \in later : \A k \in later : j <= k

\* the press log[i] is held longer than the long-press threshold
HeldLong(i) ==
    /\ log[i].ev = "falling"
    /\ IF NextEdge(i) = 0
       THEN now > log[i].t + time_long_press
       ELSE log[NextEdge(i)].t > log[i].t + time_long_press

\* C3: every press held longer than the long-press threshold, in whatever
\* state it arrives, yields exactly one 'press' at the expiry of the
\* threshold, and the release that ends it yields nothing and is not counted.
C3_LongPress ==
    \A i \in 1..Len(log) :
        HeldLong(i) =>
            LET n     == NextEdge(i)
                last  == IF n = 0 THEN Len(log) ELSE n - 1
                press == { j \in (i + 1)..last : log[j].out = "press" }
            IN  /\ Cardinality(press) = 1
                /\ \A j \in press : log[j].t = log[i].t + time_long_press
                /\ n # 0 => log[n].out = "none"
                /\ (n # 0 /\ n = Len(log)) => (click_count = 0 /\ wait = None)

\* the edges so far are two short presses, each released before the
\* long-press threshold
TwoShortPresses ==
    /\ Len(Edges) = 4
    /\ Edges[1].ev = "falling" /\ Edges[2].ev = "rising"
    /\ Edges[3].ev = "falling" /\ Edges[4].ev = "rising"
    /\ Edges[2].t - Edges[1].t < time_long_press
    /\ Edges[4].t - Edges[3].t < time_long_press

\* C4: the double-click window runs from the first release. A second release
\* inside it yields one 'twice'; a second release after it, wherever the
\* second press falls, yields two 'click', the first at the expiry of the
\* window, and no 'twice'.
C4_WindowFromFirstRelease ==
    TwoShortPresses =>
        /\ Edges[4].t - Edges[2].t < time_double_click
              => /\ Len(Outs) = 1
                 /\ Outs[1].out = "twice"
                 /\ Outs[1].t = Edges[4].t
        /\ Edges[4].t - Edges[2].t > time_double_click
              => /\ Len(Outs) >= 1
                 /\ Outs[1].out = "click"
                 /\ Outs[1].t = Edges[2].t + time_double_click
                 /\ \A i \in 1..Len(Outs) : Outs[i].out = "click"
                 /\ Len(Outs) <= 2
                 /\ now > Edges[4].t + time_double_click => Len(Outs) = 2


LastOut == IF log = <<>> THEN "none" ELSE log[Len(log)].out

\* the step consumes a release
ReleaseStep == button = "down" /\ button' = "up"

\* log[i] is a 'press', followed by its release and a short press-release
ShortClickAfterLongPress(i) ==
    /\ i + 3 <= Len(log)
    /\ log[i].out = "press"
    /\ log[i + 1].ev = "rising"
    /\ log[i + 2].ev = "falling"
    /\ log[i + 3].ev = "rising"
    /\ log[i + 3].t - log[i + 2].t < time_long_press

\* C15: ignore_release is one-shot. It is set when 'press' is yielded; the
\* next release clears it, is not counted, arms no wait and yields nothing;
\* a release that finds it unset is counted; so a short press-release after
\* the long press is counted and yields 'click' when its window expires.
C15_IgnoreOneShot ==
    /\ []((LastOut = "press") => ignore_release)
    /\ [](ignore_release => (click_count = 0 /\ wait = None /\ button = "down"))
    /\ [][(ReleaseStep /\ ignore_release)
             => /\ ~ignore_release'
                /\ click_count' = click_count
                /\ wait' = wait
                /\ LastOut' = "none"
                /\ ignored' = ignored + 1]_vars
    /\ [][(ReleaseStep /\ ~ignore_release)
             => /\ ignored' = ignored
                /\ click_count' = click_count + 1 \/ LastOut' = "twice"]_vars
    /\ [](\A i \in 1..Len(log) :
             ShortClickAfterLongPress(i)
                => /\ log[i + 3].out = "none"
                   /\ (Len(log) = i + 3) => (click_count = 1 /\ wait = time_double_click)
                   /\ (Len(log) > i + 3 /\ log[i + 4].ev = "timeout")
                         => /\ log[i + 4].out = "click"
                            /\ log[i + 4].t = log[i + 3].t + time_double_click)

C15_Witness ==
    /\ Len(log) = 6
    /\ ShortClickAfterLongPress(2)
    /\ log[6].out = "click"
    /\ ignored = 1
    /\ ~ignore_release

\* number of entries of seq whose field is val
CountIn(seq, field, val) ==
    Cardinality({ i \in 1..Len(seq) : seq[i][field] = val })

C18_CounterAndWait ==
    /\ [](click_count \in {0, 1})
    /\ []((click_count = 1) => (wait = time_double_click))
    /\ []((click_count = 0) => (wait \in {None, time_long_press}))
    /\ []((LastOut # "none") => (click_count = 0 /\ wait = None))
    /\ [][(ReleaseStep /\ ~ignore_release /\ click_count = 1)
             => (LastOut' = "twice" /\ click_count' = 0)]_vars

C18_Witness ==
    /\ Len(log) = 5
    /\ log[4].out = "twice"
    /\ log[5].ev = "falling"
    /\ click_count = 0
    /\ wait = time_long_press
    /\ time_double_click # time_long_press

\* the exploration cannot go on: the clock or the log is at its bound
AtBound == now = MaxTime \/ Len(log) = MaxLog

\* C19: a counted release is not left pending: from click_count = 1, time
\* passing and timeouts being delivered, 'click' or 'twice' is yielded and
\* click_count is 0 again, whatever edges arrive in between.
C19_PendingResolved ==
    (click_count = 1)
        ~> ((click_count = 0 /\ LastOut \in {"click", "twice"}) \/ AtBound)

C19_Witness ==
    /\ Len(log) = 4
    /\ log[2].ev = "rising"
    /\ log[3].ev = "falling"
    /\ log[4].out = "click"
    /\ click_count = 0

(***************************************************************************)
(* Properties of auto_slider                                                *)
(***************************************************************************)
\* C5: no forced-advance signal is lost: a set() of slide_event, wherever in
\* the iteration it arrives and whatever the auto-rotation setting, is
\* followed by a slider() call. Hence the scheduler never decides for
\* refresh() while a set() that no slider() call has followed yet is no
\* longer recorded in slide_event.
C5_NoSignalLost ==
    [][(pc = "test" /\ unserved /\ ~slide_event /\ pc' = "render")
          => call' = "slider"]_vars

\* C6: a set() that arrives during slide_event.wait() ends the wait at once,
\* the next iteration calls slider() and moves idx by one modulo 3 even with
\* auto-rotation disabled, and the wait that follows starts from zero and
\* times out only after the whole get_sleep_time().
C6_SignalDuringWait ==
    [][/\ (pc = "wait" /\ slide_event) => (waited' = waited /\ pc' \in {"wait", "is_set"})
       /\ (pc = "wait" /\ slide_event /\ pc' = "is_set") => woke' = "signal"
       /\ (pc = "test" /\ woke = "signal" /\ pc' = "render")
             => (call' = "slider" /\ idx' = (idx + 1) % 3)
       /\ (pc = "clear" /\ pc' = "wait") => (waited' = 0 /\ ~slide_event')
       /\ (pc = "wait" /\ ~slide_event /\ pc' = "is_set")
             => (waited = conf["slider"]["time"] /\ woke' = "timeout")
      ]_vars

C6_Witness ==
    /\ ~conf["slider"]["auto"]
    /\ woke = "signal"
    /\ call = "slider"
    /\ Len(frames) >= 2
    /\ frames[Len(frames)] = (frames[Len(frames) - 1] + 1) % 3
    /\ pc = "wait"
    /\ waited = conf["slider"]["time"]

\* C7: with auto-rotation enabled and no forced signal, every iteration
\* moves idx by exactly one modulo 3: the pages shown are 0, 1, 2, 0, ...
\* with none skipped and none shown twice in a row, one per expired wait.
C7_AutoRotation ==
    (conf["slider"]["auto"] /\ nsignals = 0)
        => /\ \A i \in 1..Len(frames) : frames[i] = (i - 1) % 3
           /\ (pc = "render") => (idx = Len(frames) % 3)
           /\ woke \in {"none", "timeout"}
           /\ call \in {"none", "slider"}

C7_Witness ==
    /\ conf["slider"]["auto"]
    /\ nsignals = 0
    /\ frames = <<0, 1, 2, 0>>
    /\ woke = "timeout"

\* C11: forced-advance signals are not counted. With auto-rotation disabled,
\* k >= 1 set() calls since the last clear(), the wait having ended by the
\* signal, move idx by exactly one from its value at that clear(); clear()
\* leaves the event unset at the entry of the next wait; and an iteration
\* after a timeout with no set() since the clear() leaves idx unchanged.
C11_LevelTriggered ==
    [][/\ (/\ pc = "test" /\ pc' = "render"
           /\ ~conf["slider"]["auto"] /\ woke = "signal" /\ sinceClear >= 1)
             => (call' = "slider" /\ idx' = (idxAtClear + 1) % 3)
       /\ (pc = "clear" /\ pc' = "wait") => ~slide_event'
       /\ (/\ pc = "test" /\ pc' = "render"
           /\ ~conf["slider"]["auto"] /\ woke = "timeout" /\ sinceClear = 0)
             => (call' = "refresh" /\ idx' = idxAtClear)
      ]_vars

C11_Witness ==
    /\ ~conf["slider"]["auto"]
    /\ woke = "signal"
    /\ sinceClear = 2
    /\ pc = "clear"
    /\ call = "slider"
    /\ Len(frames) >= 2
    /\ idx = (idxAtClear + 1) % 3
    /\ frames[Len(frames)] = (frames[Len(frames) - 1] + 1) % 3

\* C12: with auto-rotation disabled, an iteration that follows a wait ended
\* by timeout with is_set() False calls refresh(): idx is unchanged and the
\* page shown is the page shown before.
C12_RefreshKeepsPage ==
    /\ [][(/\ pc = "test" /\ pc' = "render"
            /\ ~conf["slider"]["auto"] /\ woke = "timeout" /\ ~slide)
              => (call' = "refresh" /\ idx' = idx)]_vars
    /\ []((call = "refresh" /\ pc = "clear")
              => /\ Len(frames) >= 2
                 /\ frames[Len(frames)] = idx
                 /\ frames[Len(frames) - 1] = idx)

C12_Witness ==
    /\ ~conf["slider"]["auto"]
    /\ woke = "timeout"
    /\ call = "refresh"
    /\ pc = "clear"
    /\ nsignals = 0
    /\ frames = <<0, 0>>

\* C13: a metric read that fails while a page is generated does not end
\* auto_slider: the loop never leaves through an exception.
C13_LoopSurvives == pc # "dead"

\* C20: idx is -1 until the first iteration, which always calls slider();
\* refresh() is never called with idx = -1; every page shown has idx in
\* {0, 1, 2}; idx changes only in slider(), to (idx + 1) mod 3.
C20_IndexRange ==
    /\ [](idx \in -1..2)
    /\ []((call = "none") => (idx = -1 /\ frames = <<>>))
    /\ []((call = "refresh") => (idx \in 0..2))
    /\ [](\A i \in 1..Len(frames) : frames[i] \in 0..2)
    /\ [][(idx' # idx) => (pc = "test" /\ call' = "slider" /\ idx' = (idx + 1) % 3)]_vars
    /\ [][(call = "none" /\ pc' = "render") => call' = "slider"]_vars

C20_Witness ==
    /\ ~conf["slider"]["auto"]
    /\ nsignals = 0
    /\ call = "slider"
    /\ idx = 0
    /\ frames = <<0>>

(***************************************************************************)
(* Properties of fan_temp2dc                                                *)
(***************************************************************************)
Levels == <<"lv3", "lv2", "lv1", "lv0">>

LevelFraction == [lv3 |-> 100, lv2 |-> 75, lv1 |-> 50, lv0 |-> 25]

\* the levels, by position in Levels, whose threshold is <= t
Reached(t) == { i \in 1..Len(Levels) : conf["fan"][Levels[i]] <= t }

\* the fraction of the first level in the order lv3, lv2, lv1, lv0 whose
\* threshold is <= t, 0 when there is none
FractionOfFirst(t) ==
    IF Reached(t) = {} THEN 0
    ELSE LevelFraction[Levels[CHOOSE i \in Reached(t) : \A j \in Reached(t) : i <= j]]

DefaultTable == conf["fan"] = [lv0 |-> 35, lv1 |-> 40, lv2 |-> 45, lv3 |-> 50]

BelowAll(t) == \A i \in 1..Len(Levels) : t < conf["fan"][Levels[i]]

\* C8 as stated: fan_temp2dc(t) is the fraction of the first level reached,
\* 0.0 below all thresholds; 0.5 at 42 and 0.0 at 30 with the default table.
C8_Original ==
    \A i \in 1..Len(samples) :
        /\ samples[i].dc = FractionOfFirst(samples[i].t)
        /\ (DefaultTable /\ samples[i].t = 42) => samples[i].dc = 50
        /\ (DefaultTable /\ samples[i].t = 30) => samples[i].dc = 0

\* C8 (amended): fan_temp2dc(t) is 1.0 minus the fraction of the first level
\* reached, 1.0 below all thresholds; 0.5 at 42 and 1.0 at 30 with the
\* default table.
C8_InvertedFraction ==
    \A i \in 1..Len(samples) :
        /\ samples[i].dc = 100 - FractionOfFirst(samples[i].t)
        /\ (DefaultTable /\ samples[i].t = 42) => samples[i].dc = 50
        /\ (DefaultTable /\ samples[i].t = 30) => samples[i].dc = 100

C8_Witness ==
    /\ DefaultTable
    /\ samples = <<[t |-> 42, dc |-> 50], [t |-> 30, dc |-> 100]>>

\* C9 as stated: for a fixed table fan_temp2dc is non-decreasing in t and
\* is the "off" duty FAN_DUTY_OFF below all thresholds.
C9_Original ==
    /\ (Len(samples) = 2 /\ samples[1].t <= samples[2].t)
          => samples[1].dc <= samples[2].dc
    /\ \A i \in 1..Len(samples) :
          BelowAll(samples[i].t) => samples[i].dc = FAN_DUTY_OFF

\* C9 (amended): for a fixed table, ascending or not, fan_temp2dc is
\* non-increasing in t (the fan fraction 1.0 - fan_temp2dc(t) is
\* non-decreasing) and is 1.0, the inverted "off" duty, below all thresholds.
C9_NonIncreasing ==
    /\ (Len(samples) = 2 /\ samples[1].t <= samples[2].t)
          => samples[1].dc >= samples[2].dc
    /\ \A i \in 1..Len(samples) :
          BelowAll(samples[i].t) => samples[i].dc = 100

C9_Witness ==
    /\ Len(samples) = 2
    /\ conf["fan"]["lv3"] < conf["fan"]["lv0"]
    /\ samples[1].t < samples[2].t
    /\ samples[1].dc > samples[2].dc
    /\ BelowAll(samples[1].t)

(***************************************************************************)
(* Properties of read_conf                                                  *)
(***************************************************************************)
\* an option read in the try block is missing or does not parse
LoadFails == \E i \in 1..Len(ConfFields) : ConfFields[i] \notin DOMAIN cfg

\* C10: when loading fails at any option, also after earlier options were
\* read, the import completes with the documented default in every field,
\* nothing loaded from the file survives, and conf['run'] is as it was.
C10_DefaultsOnFailure ==
    (imported /\ LoadFails)
        => /\ conf["fan"] = [lv0 |-> 35, lv1 |-> 40, lv2 |-> 45, lv3 |-> 50]
           /\ conf["key"] = [click |-> "slider", twice |-> "switch", press |-> "none"]
           /\ conf["time"] = [twice |-> 7, press |-> 18]
           /\ conf["slider"] = [auto |-> TRUE, time |-> 10]
           /\ conf["run"] = conf0["run"]
           /\ conf["disk"] = conf0["disk"]

C10_Witness ==
    /\ imported
    /\ <<"fan", "lv0">> \in DOMAIN cfg
    /\ <<"time", "twice">> \in DOMAIN cfg
    /\ <<"slider", "time">> \notin DOMAIN cfg
    /\ conf["fan"]["lv0"] = 35
    /\ conf["time"]["twice"] = 7
(***************************************************************************)
(* Properties of get_func and fan_switch                                    *)
(***************************************************************************)
ActionNames == {"slider", "switch", "none"}

\* C14: get_func always returns one of 'slider', 'switch', 'none': the
\* configured binding when it is one of these, 'none' when the key has no
\* binding and 'none' when the binding is an unknown action name.
C14_KnownAction ==
    (d_pc = "dispatch")
        => /\ func \in ActionNames
           /\ IF gesture \in DOMAIN conf["key"] /\ conf["key"][gesture] \in ActionNames
              THEN func = conf["key"][gesture]
              ELSE func = "none"

====
